---- MODULE Spec2Model ----
(***************************************************************************)
(* A model of pool_controller.py: the PentairCom thread that reads frames  *)
(* from the RS485 bus (get_packet, read_status, run) and the command path  *)
(* of a foreground caller (send_command, get_status).                      *)
(*                                                                         *)
(* Python lists are 0-indexed; At(p, i) reads p[i] with the source's index.*)
(* A value of the status dict is <<>> when the key is absent and <<v>>     *)
(* when the key holds v.                                                   *)
(***************************************************************************)
EXTENDS Integers, Sequences, FiniteSets, TLC

VARIABLES
    bus,        \* bytes on the serial line not yet read by port.read()
    packet,     \* read_status: the local `packet`
    pollPc,     \* position of the polling thread (run / read_status)
    wr,         \* read_status: index of the next status assignment of lines 200-212
    status,     \* self.status
    ready,      \* self.ready
    errlog,     \* number of "Checksum is bad" errors logged by get_packet (saturating)
    stale,      \* history: self.ready was cleared after the current packet was read
    callPc,     \* position of the foreground caller (send_command / get_status)
    feature,    \* send_command: argument `feature`
    state,      \* send_command: argument `state`
    retry,      \* send_command: local `retry`
    start,      \* send_command: local `start`
    writes,     \* number of port.write(data) calls of the current send_command
    out,        \* bytes of the last port.write(data)
    now         \* datetime.datetime.now(), in whole seconds

vars == <<bus, packet, pollPc, wr, status, ready, errlog, stale,
          callPc, feature, state, retry, start, writes, out, now>>

pollVars == <<packet, pollPc, wr, status, errlog>>
callVars == <<callPc, feature, state, retry, start, writes, out>>

----------------------------------------------------------------------------
(* Bounds of the model *)

MaxTime == 6        \* the clock stops advancing here
MaxLog == 1         \* errlog saturates here

----------------------------------------------------------------------------
(* Class attributes of PentairCom *)

timeout == 5
Equip1 == 8
Equip2 == 9
WaterTemp == 20
AirTemp == 24
Hour == 6
Minute == 7

MAIN == 16
REMOTE == 32
PUMP1 == 96
BROADCAST == 15

Controller(a) ==
    CASE a = MAIN -> [name |-> "Main"]
      [] a = REMOTE -> [name |-> "Remote"]
      [] a = PUMP1 -> [name |-> "Pump1"]
      [] a = BROADCAST -> [name |-> "Broadcast"]
      [] OTHER -> [raw |-> a]

StateName(b) == IF b = 0 THEN "off" ELSE "on"

Features == 1..9

get_feature_name(f) ==
    CASE f = 1 -> "spa"
      [] f = 2 -> "cleaner"
      [] f = 3 -> "air_blower"
      [] f = 4 -> "spa_light"
      [] f = 5 -> "pool_light"
      [] f = 6 -> "pool"
      [] f = 7 -> "water_feature"
      [] f = 8 -> "spillway"
      [] f = 9 -> "aux"

FeatureNames == {get_feature_name(f) : f \in Features}

Fields == FeatureNames \cup
    {"last_update", "source", "destination", "time",
     "water_temp", "air_temp", "pump_watts", "pump_rpm"}

EmptyStatus == [k \in Fields |-> <<>>]

----------------------------------------------------------------------------
(* Bytes and frames *)

At(p, i) == p[i + 1]

\* sum() of a list of integers (halving keeps the evaluation shallow)
RECURSIVE Sum(_)
Sum(s) ==
    IF s = <<>> THEN 0
    ELSE IF Len(s) = 1 THEN s[1]
    ELSE Sum(SubSeq(s, 1, Len(s) \div 2)) + Sum(SubSeq(s, (Len(s) \div 2) + 1, Len(s)))

Preamble == <<255, 0, 255, 165>>

Blocked == [blocked |-> TRUE]

\* Mutant of lines 105-107: the window filled four bytes at a time.
RECURSIVE SyncAtChunk(_, _, _)
SyncAtChunk(header, s, i) ==
    IF header = Preamble THEN i
    ELSE IF i + 4 > Len(s) THEN -1
    ELSE SyncAtChunk(SubSeq(s, i + 1, i + 4), s, i + 4)

\* The sliding 4-byte window of get_packet: the number of bytes of s consumed
\* when the window equals the preamble, -1 when s ends before that.
RECURSIVE SyncAt(_, _, _)
SyncAt(header, s, i) ==
    IF header = Preamble THEN i
    ELSE IF i >= Len(s) THEN -1
    ELSE SyncAt(Tail(header) \o <<s[i + 1]>>, s, i + 1)

\* Mutants of the comparison of line 114: the sum reduced modulo 65536, and
\* only the high byte compared.
ChecksumOkMod(pkt, checksum) == Sum(pkt) % 65536 = checksum
ChecksumOkHigh(pkt, checksum) == Sum(pkt) \div 256 = checksum \div 256

\* Line 114: packet_checksum != checksum, negated.
ChecksumOk(pkt, checksum) == Sum(pkt) = checksum

\* get_packet on the unread bytes s: Blocked while a port.read() would block,
\* else the returned packet ([] on a bad checksum) and the bytes left unread.
get_packet(s) ==
    LET i == SyncAt(<<0, 0, 0, 0>>, s, 0) IN
    IF i = -1 \/ Len(s) < i + 5 THEN Blocked
    ELSE
        LET head == <<165>> \o SubSeq(s, i + 1, i + 5)
            n == head[Len(head)]
        IN  IF Len(s) < i + 5 + n + 2 THEN Blocked
            ELSE
                LET pkt == head \o SubSeq(s, i + 6, i + 5 + n)
                    checksum == (s[i + 6 + n] * 256) + s[i + 7 + n]
                IN  [blocked |-> FALSE,
                     packet |-> IF ChecksumOk(pkt, checksum) THEN pkt ELSE <<>>,
                     bad |-> ~ChecksumOk(pkt, checksum),
                     rest |-> SubSeq(s, i + 8 + n, Len(s))]

\* A frame as it travels on the bus: preamble, 5 header bytes, payload, 2-byte trailer.
Wire(hdr, payload, trailer) ==
    Preamble \o hdr \o payload \o <<trailer \div 256, trailer % 256>>

\* The trailer a sender computes, as send_command does: the sum from 0xA5 on.
SenderSum(hdr, payload) == 165 + Sum(hdr) + Sum(payload)

Frame(b1, dst, src, cmd, payload) ==
    Wire(<<b1, dst, src, cmd, Len(payload)>>, payload,
         SenderSum(<<b1, dst, src, cmd, Len(payload)>>, payload))

\* The same frame with the low checksum byte flipped.
Corrupt(b1, dst, src, cmd, payload) ==
    Wire(<<b1, dst, src, cmd, Len(payload)>>, payload,
         (SenderSum(<<b1, dst, src, cmd, Len(payload)>>, payload) + 1) % 65536)

\* A status payload of n bytes: hour, minute, the two equipment bytes and the
\* temperatures at the packet indices read_status reads (payload[i] is packet[i+5]).
StatusPayload(n, h, m, e1, e2, wt, at) ==
    [i \in 1..n |->
        CASE i = Hour - 5 -> h
          [] i = Minute - 5 -> m
          [] i = Equip1 - 5 -> e1
          [] i = Equip2 - 5 -> e2
          [] i = WaterTemp - 5 -> wt
          [] i = AirTemp - 5 -> at
          [] OTHER -> 0]

StatusFrame(n, e1, e2) ==
    Frame(1, BROADCAST, MAIN, 2, StatusPayload(n, 12, 5, e1, e2, 80, 70))

\* A pump telemetry frame: 15 payload bytes, watts at packet[9..10], rpm at packet[11..12].
PumpPayload(w, r) ==
    [i \in 1..15 |->
        CASE i = 4 -> w \div 256
          [] i = 5 -> w % 256
          [] i = 6 -> r \div 256
          [] i = 7 -> r % 256
          [] OTHER -> 0]

----------------------------------------------------------------------------
(* read_status: decoding of a status frame *)

\* "{0:08b}".format(n): eight characters, most significant bit first.
Bin8(n) == [i \in 1..8 |-> IF (n \div (2 ^ (8 - i))) % 2 = 1 THEN "1" ELSE "0"]

\* s[a:b] for a string held as a sequence of characters
Slice(s, a, b) == SubSeq(s, a + 1, b)

\* int() of a one-character binary string
IntOf(c) == IF c = <<"1">> THEN 1 ELSE 0

DigitChar(d) == <<"0", "1", "2", "3", "4", "5", "6", "7", "8", "9">>[d + 1]

RECURSIVE Decimal(_)
Decimal(n) == IF n < 10 THEN <<DigitChar(n)>> ELSE Decimal(n \div 10) \o <<DigitChar(n % 10)>>

\* "{0:02d}".format(n)
Fmt02(n) == IF n < 10 THEN <<"0">> \o Decimal(n) ELSE Decimal(n)

\* "{0:02d}:{1:02d}".format(h, m)
TimeStr(h, m) == Fmt02(h) \o <<":">> \o Fmt02(m)

\* The keys assigned by lines 200-212, in the order of the source.
DecodeOrder ==
    <<"last_update", "source", "destination", "time", "spillway", "pool", "spa",
      "air_blower", "pool_light", "spa_light", "cleaner", "water_feature", "aux">>

\* Mutant of the slices of lines 204-212: the bits counted from the least
\* significant end.
EquipSliceLsb(k) ==
    CASE k = "spillway" -> <<Equip1, 7>>
      [] k = "pool" -> <<Equip1, 5>>
      [] k = "spa" -> <<Equip1, 0>>
      [] k = "air_blower" -> <<Equip1, 2>>
      [] k = "pool_light" -> <<Equip1, 4>>
      [] k = "spa_light" -> <<Equip1, 3>>
      [] k = "cleaner" -> <<Equip1, 1>>
      [] k = "water_feature" -> <<Equip1, 6>>
      [] k = "aux" -> <<Equip2, 0>>

\* The equipment byte (packet index) and the slice start of each feature key.
EquipSlice(k) ==
    CASE k = "spillway" -> <<Equip1, 0>>
      [] k = "pool" -> <<Equip1, 2>>
      [] k = "spa" -> <<Equip1, 7>>
      [] k = "air_blower" -> <<Equip1, 5>>
      [] k = "pool_light" -> <<Equip1, 3>>
      [] k = "spa_light" -> <<Equip1, 4>>
      [] k = "cleaner" -> <<Equip1, 6>>
      [] k = "water_feature" -> <<Equip1, 1>>
      [] k = "aux" -> <<Equip2, 7>>

\* self.state[int(equipN[a:a+1])]
FeatureState(k, pkt) ==
    LET e == EquipSlice(k)
        bits == Bin8(At(pkt, e[1]))
    IN  StateName(IntOf(Slice(bits, e[2], e[2] + 1)))

SrcController(pkt) == Controller(At(pkt, 3))
DstController(pkt) == Controller(At(pkt, 2))

\* The value assigned to key k by lines 200-212 for packet pkt at time t.
FieldValue(k, pkt, t) ==
    CASE k = "last_update" -> t
      [] k = "source" -> SrcController(pkt)
      [] k = "destination" -> DstController(pkt)
      [] k = "time" -> TimeStr(At(pkt, Hour), At(pkt, Minute))
      [] OTHER -> FeatureState(k, pkt)

\* Lines 213 and 215: the guard of a temperature assignment.
TempGuard(pkt, idx) == Len(pkt) >= idx

\* pkt[idx] raises IndexError unless idx is an index of pkt.
InRange(pkt, idx) == idx < Len(pkt)

\* Mutant of line 188: without the test of len(packet).
IsPumpTelemetryAnyLength(pkt) ==
    /\ SrcController(pkt) = [name |-> "Pump1"]
    /\ At(pkt, 4) = 7

\* Line 188.
IsPumpTelemetry(pkt) ==
    /\ SrcController(pkt) = [name |-> "Pump1"]
    /\ At(pkt, 4) = 7
    /\ Len(pkt) = 21

\* Mutant of line 193: without the test of the destination.
DoneAny(pkt) == Len(pkt) > 3

\* Line 193 with controller = Ctrl.BROADCAST, as run() calls read_status.
Done(pkt) == Len(pkt) > 3 /\ At(pkt, 2) = BROADCAST

\* Mutant of line 197: a length byte of 8 decoded too.
HasStatusFrom8(pkt) == At(pkt, 5) >= 8

\* Lines 196-197: data_length = packet[5]; if data_length > 8.
HasStatus(pkt) == At(pkt, 5) > 8

Min(a, b) == IF a < b THEN a ELSE b

----------------------------------------------------------------------------
(* The polling thread: run() calling read_status(Ctrl.BROADCAST) forever *)

\* One iteration of `while not done` (lines 170-194) and, when it ends the
\* loop, the length test of lines 196-197.
ReadStatusLoop ==
    /\ pollPc = "get"
    /\ ~get_packet(bus).blocked
    /\ LET r == get_packet(bus)
           p == r.packet
       IN  /\ bus' = r.rest
           /\ packet' = p
           /\ errlog' = IF r.bad THEN Min(errlog + 1, MaxLog) ELSE errlog
           /\ stale' = FALSE
           /\ status' = IF Len(p) > 3 /\ IsPumpTelemetry(p)
                        THEN [status EXCEPT
                                !["pump_watts"] = <<(At(p, 9) * 256) + At(p, 10)>>,
                                !["pump_rpm"] = <<(At(p, 11) * 256) + At(p, 12)>>]
                        ELSE status
           /\ pollPc' = IF Done(p)
                        THEN (IF HasStatus(p) THEN "decode" ELSE "ready")
                        ELSE "get"
    /\ wr' = 1
    /\ UNCHANGED <<ready, now>>
    /\ UNCHANGED callVars

\* One assignment of lines 200-212.
ReadStatusWrite ==
    /\ pollPc = "decode"
    /\ status' = [status EXCEPT
                    ![DecodeOrder[wr]] = <<FieldValue(DecodeOrder[wr], packet, now)>>]
    /\ IF wr = Len(DecodeOrder)
       THEN pollPc' = "water" /\ wr' = 1
       ELSE pollPc' = pollPc /\ wr' = wr + 1
    /\ UNCHANGED <<bus, packet, ready, errlog, stale, now>>
    /\ UNCHANGED callVars

\* Lines 213-214.
ReadStatusWater ==
    /\ pollPc = "water"
    /\ IF TempGuard(packet, WaterTemp)
       THEN IF InRange(packet, WaterTemp)
            THEN /\ status' = [status EXCEPT !["water_temp"] = <<At(packet, WaterTemp)>>]
                 /\ pollPc' = "air"
            ELSE /\ status' = status
                 /\ pollPc' = "crashed"
       ELSE /\ status' = status
            /\ pollPc' = "air"
    /\ UNCHANGED <<bus, packet, wr, ready, errlog, stale, now>>
    /\ UNCHANGED callVars

\* Lines 215-216.
ReadStatusAir ==
    /\ pollPc = "air"
    /\ IF TempGuard(packet, AirTemp)
       THEN IF InRange(packet, AirTemp)
            THEN /\ status' = [status EXCEPT !["air_temp"] = <<At(packet, AirTemp)>>]
                 /\ pollPc' = "ready"
            ELSE /\ status' = status
                 /\ pollPc' = "crashed"
       ELSE /\ status' = status
            /\ pollPc' = "ready"
    /\ UNCHANGED <<bus, packet, wr, ready, errlog, stale, now>>
    /\ UNCHANGED callVars

\* Line 217: the test of self.ready; with the flag already set, line 219
\* returns and run() calls read_status again (packet = []).
ReadStatusReady ==
    /\ pollPc = "ready"
    /\ IF ~ready
       THEN pollPc' = "set" /\ packet' = packet
       ELSE pollPc' = "get" /\ packet' = <<>>
    /\ UNCHANGED <<bus, wr, status, ready, errlog, stale, now>>
    /\ UNCHANGED callVars

\* Lines 218-219.
ReadStatusSetReady ==
    /\ pollPc = "set"
    /\ ready' = TRUE
    /\ pollPc' = "get"
    /\ packet' = <<>>
    /\ UNCHANGED <<bus, wr, status, errlog, stale, now>>
    /\ UNCHANGED callVars

Poll ==
    \/ ReadStatusLoop
    \/ ReadStatusWrite
    \/ ReadStatusWater
    \/ ReadStatusAir
    \/ ReadStatusReady
    \/ ReadStatusSetReady

----------------------------------------------------------------------------
(* The foreground caller: send_command and the get_status calls it makes *)

States == {"on", "off"}

\* Mutant of line 135: the two addresses in the other order.
CommandBytesSwapped(f, s) ==
    LET pkt == <<165, 31, REMOTE, MAIN, 134, 2, f, IF s = "on" THEN 1 ELSE 0>>
        checksum == Sum(pkt)
    IN  <<0, 255>> \o pkt \o <<checksum \div 256, checksum % 256>>

\* Lines 134-140: header + packet + the two checksum bytes.
CommandBytes(f, s) ==
    LET pkt == <<165, 31, MAIN, REMOTE, 134, 2, f, IF s = "on" THEN 1 ELSE 0>>
        checksum == Sum(pkt)
    IN  <<0, 255>> \o pkt \o <<checksum \div 256, checksum % 256>>

\* Mutant of line 145: the loop entered when the value equals the state.
LoopAgainEqual(value, s, r) == value = <<s>> /\ r # 0

\* The loop condition of line 145.
LoopAgain(value, s, r) == value # <<s>> /\ r # 0

\* The test of line 152.
TimedOut(t, t0) == t - t0 > timeout

\* Lines 131-142: build the frame, write it, take the start time.
SendCommandStart(f, s) ==
    /\ callPc = "idle"
    /\ feature' = f
    /\ state' = s
    /\ retry' = 5
    /\ out' = CommandBytes(f, s)
    /\ writes' = 1
    /\ start' = now
    /\ callPc' = "clear1"
    /\ UNCHANGED <<bus, ready, stale, now>>
    /\ UNCHANGED pollVars

\* Mutant of line 232: get_status also empties the snapshot.
GetStatusClearWipe ==
    /\ callPc \in {"clear1", "clear2"}
    /\ ready' = FALSE
    /\ status' = EmptyStatus
    /\ stale' = (pollPc \notin {"get", "crashed"})
    /\ callPc' = IF callPc = "clear1" THEN "wait1" ELSE "wait2"
    /\ UNCHANGED <<bus, feature, state, retry, start, writes, out, now>>
    /\ UNCHANGED <<packet, pollPc, wr, errlog>>

\* get_status, line 232 (called from line 143 or from line 147).
GetStatusClear ==
    /\ callPc \in {"clear1", "clear2"}
    /\ ready' = FALSE
    /\ stale' = (pollPc \notin {"get", "crashed"})
    /\ callPc' = IF callPc = "clear1" THEN "wait1" ELSE "wait2"
    /\ UNCHANGED <<bus, feature, state, retry, start, writes, out, now>>
    /\ UNCHANGED pollVars

\* get_status, lines 233-235: the busy wait ends when the flag is set.
GetStatusWait ==
    /\ callPc \in {"wait1", "wait2"}
    /\ ready
    /\ callPc' = IF callPc = "wait1" THEN "log" ELSE "tail"
    /\ UNCHANGED <<bus, ready, stale, feature, state, retry, start, writes, out, now>>
    /\ UNCHANGED pollVars

\* Line 144: status[feature_name] is read for the log line (KeyError when absent).
SendCommandLog ==
    /\ callPc = "log"
    /\ callPc' = IF status[get_feature_name(feature)] = <<>> THEN "keyerror" ELSE "cond"
    /\ UNCHANGED <<bus, ready, stale, feature, state, retry, start, writes, out, now>>
    /\ UNCHANGED pollVars

\* The rest of a loop body (lines 148-151, at "tail"), then the loop condition
\* of line 145 read from the shared dict, then either the re-write of line 146
\* or the end of the call (lines 152-158: raise on timeout, else return
\* self.status).
SendCommandLoop ==
    /\ callPc \in {"cond", "tail"}
    /\ LET r == IF callPc = "tail" THEN retry - 1 ELSE retry
           value == status[get_feature_name(feature)]
       IN  /\ retry' = r
           /\ IF value = <<>>
              THEN callPc' = "keyerror" /\ UNCHANGED <<writes, out>>
              ELSE IF LoopAgain(value, state, r)
              THEN /\ out' = CommandBytes(feature, state)
                   /\ writes' = writes + 1
                   /\ callPc' = "clear2"
              ELSE /\ callPc' = IF TimedOut(now, start) THEN "timeout" ELSE "returned"
                   /\ UNCHANGED <<writes, out>>
    /\ UNCHANGED <<bus, ready, stale, feature, state, start, now>>
    /\ UNCHANGED pollVars

Call ==
    \/ GetStatusClear
    \/ GetStatusWait
    \/ SendCommandLog
    \/ SendCommandLoop

----------------------------------------------------------------------------
(* The environment: the bus and the clock *)

\* A peer puts a frame on the idle bus.
BusDeliver(f) ==
    /\ bus = <<>>
    /\ bus' = f
    /\ UNCHANGED <<ready, stale, now>>
    /\ UNCHANGED pollVars
    /\ UNCHANGED callVars

\* The clock advances while the caller sleeps in get_status (sleep(0.1), line 234);
\* its other statements take no modelled time.
Tick ==
    /\ now < MaxTime
    /\ callPc \in {"wait1", "wait2"}
    /\ now' = now + 1
    /\ UNCHANGED <<bus, ready, stale>>
    /\ UNCHANGED pollVars
    /\ UNCHANGED callVars

----------------------------------------------------------------------------
(* Specifications *)

\* The state after PentairCom.__init__ and start(): no frame read, status = {}.
InitWith(b) ==
    /\ bus = b
    /\ packet = <<>>
    /\ pollPc = "get"
    /\ wr = 1
    /\ status = EmptyStatus
    /\ ready = FALSE
    /\ errlog = 0
    /\ stale = FALSE
    /\ callPc = "idle"
    /\ feature = 1
    /\ state = "off"
    /\ retry = 5
    /\ start = 0
    /\ writes = 0
    /\ out = <<>>
    /\ now = 0

Init == InitWith(<<>>)

AllOff == StatusFrame(29, 0, 0)
SpaOn == StatusFrame(29, 1, 0)
ShortFrame == Frame(1, BROADCAST, MAIN, 2, StatusPayload(8, 12, 5, 1, 0, 0, 0))
\* Frames on the bus while a caller issues commands.
BusFrames == {AllOff, SpaOn, ShortFrame}

\* The features a caller commands in the full system.
CallFeatures == {1}

Next ==
    \/ \E f \in BusFrames : BusDeliver(f)
    \/ Poll
    \/ \E f \in CallFeatures, s \in States : SendCommandStart(f, s)
    \/ Call
    \/ Tick

Spec == Init /\ [][Next]_vars

\* ---- the command path while the controller never reports SPA on ----

ToRemote == Frame(1, REMOTE, MAIN, 2, StatusPayload(29, 12, 5, 1, 0, 80, 70))

SilentFrames == {AllOff, ToRemote}

NextSilent ==
    \/ \E f \in SilentFrames : BusDeliver(f)
    \/ Poll
    \/ SendCommandStart(1, "on")
    \/ Call
    \/ Tick

SpecSilent == Init /\ [][NextSilent]_vars

\* ---- the polling thread alone, over every kind of frame ----

PumpFrame == Frame(0, MAIN, PUMP1, 7, PumpPayload(300, 2000))
PumpBroadcast == Frame(0, BROADCAST, PUMP1, 7, PumpPayload(301, 2001))
PumpOtherCmd == Frame(0, MAIN, PUMP1, 6, PumpPayload(302, 2002))
Unknown == Frame(1, 51, 68, 2, StatusPayload(29, 1, 2, 255, 1, 60, 50))
\* A command frame of a remote controller, as line 135 builds it.
CommandFrame == Frame(31, MAIN, REMOTE, 134, <<1, 1>>)
\* Telemetry bytes in a packet of 20 bytes, and from another source.
PumpShort == Frame(0, MAIN, PUMP1, 7, SubSeq(PumpPayload(304, 2004), 1, 14))
PumpOtherSource == Frame(0, MAIN, REMOTE, 7, PumpPayload(303, 2003))

PollFrames ==
    {StatusFrame(29, 0, 0),
     Frame(1, BROADCAST, MAIN, 2, StatusPayload(29, 7, 30, 161, 1, 81, 71)),
     Frame(1, BROADCAST, 68, 2, StatusPayload(9, 23, 59, 255, 0, 0, 0)),
     Frame(1, BROADCAST, MAIN, 2, StatusPayload(14, 1, 1, 2, 1, 0, 0)),
     Frame(1, BROADCAST, MAIN, 2, StatusPayload(15, 1, 1, 4, 1, 82, 0)),
     Frame(1, BROADCAST, MAIN, 2, StatusPayload(18, 1, 1, 8, 1, 83, 0)),
     Frame(1, BROADCAST, MAIN, 2, StatusPayload(19, 1, 1, 16, 1, 84, 74)),
     ShortFrame,
     Frame(1, BROADCAST, MAIN, 2, <<>>),
     Corrupt(1, BROADCAST, MAIN, 2, StatusPayload(29, 9, 9, 254, 1, 90, 91)),
     PumpFrame, PumpBroadcast, PumpOtherCmd, ToRemote, Unknown,
     CommandFrame, PumpShort, PumpOtherSource}

NextPoll ==
    \/ \E f \in PollFrames : BusDeliver(f)
    \/ Poll

SpecPoll == Init /\ [][NextPoll]_vars

\* ---- one status frame for every pair of equipment bytes ----

InitEquip == \E e1 \in 0..255, e2 \in 0..255 : InitWith(StatusFrame(9, e1, e2))

SpecEquip == InitEquip /\ [][Poll]_vars

\* ---- get_packet on one synchronised frame with any trailer ----

Fill(n, b) == [i \in 1..n |-> b]

PacketPayloads ==
    {<<>>, <<7>>, <<255, 255>>, Fill(255, 255), Fill(255, 0),
     StatusPayload(29, 12, 5, 161, 1, 80, 70)}

PacketHeaders(payload) ==
    {<<b1, dst, src, 2, Len(payload)>> : b1 \in {0, 1, 255}, dst \in {BROADCAST, MAIN, 255},
                                         src \in {MAIN, 255}}

\* The trailers tried for a frame: the sender's sum and its neighbours, the sum
\* reduced modulo 65536, and the sums that leave out 0xA5 or the first header byte.
Trailers(hdr, payload) ==
    {t % 65536 : t \in {SenderSum(hdr, payload), SenderSum(hdr, payload) + 1,
                        SenderSum(hdr, payload) + 256,
                        Sum(hdr) + Sum(payload),
                        Sum(Tail(hdr)) + Sum(payload)}}

PacketStreams ==
    UNION {UNION {{Wire(hdr, payload, t) : t \in Trailers(hdr, payload)} :
                    hdr \in PacketHeaders(payload)} : payload \in PacketPayloads}

InitPacket == \E s \in PacketStreams : InitWith(s)

SpecPacket == InitPacket /\ [][ReadStatusLoop]_vars

\* ---- get_packet on bytes without the preamble followed by a frame ----

\* Bytes read before a frame: none of these holds FF 00 FF A5, some hold the
\* first bytes of it.
Junk ==
    {<<>>, <<255>>, <<255, 0>>, <<255, 0, 255>>, <<255, 255, 0, 255>>,
     <<255, 0, 255, 0>>, <<0, 0, 0, 0>>, <<165>>, <<7, 165, 255, 0, 255, 255>>}

\* A frame whose payload holds the bytes of the preamble.
PreambleInPayload == Frame(1, MAIN, REMOTE, 2, <<255, 0, 255, 165, 255>>)

SyncFrames ==
    {CommandFrame, Frame(1, BROADCAST, MAIN, 2, <<>>), AllOff, PreambleInPayload}

\* The bytes that have arrived: the junk and the first bytes of the frame,
\* up to all of them.
SyncStreams ==
    UNION {{j \o SubSeq(f, 1, n) : n \in 0..Len(f)} : j \in Junk, f \in SyncFrames}

InitSync == \E s \in SyncStreams : InitWith(s)

SpecSync == InitSync /\ [][ReadStatusLoop]_vars

\* ---- the bytes send_command writes, read back by get_packet ----

\* Bytes on the line before the written frame: none, or what an idle or
\* noisy line leaves in front of it.
LinePrefixes == {<<>>, <<255>>, <<255, 255>>, <<0>>, <<165, 255>>}

\* send_command(f, s) has written its frame (lines 131-142) and the reader
\* finds the written bytes on its line after the bytes of pre.
InitCommand ==
    \E f \in Features, s \in States, pre \in LinePrefixes :
        /\ bus = pre \o CommandBytes(f, s)
        /\ packet = <<>>
        /\ pollPc = "get"
        /\ wr = 1
        /\ status = EmptyStatus
        /\ ready = FALSE
        /\ errlog = 0
        /\ stale = FALSE
        /\ callPc = "clear1"
        /\ feature = f
        /\ state = s
        /\ retry = 5
        /\ start = 0
        /\ writes = 1
        /\ out = CommandBytes(f, s)
        /\ now = 0

SpecCommand == InitCommand /\ [][ReadStatusLoop]_vars

----------------------------------------------------------------------------
(* Properties *)

\* A stream that is exactly one frame: the preamble, 5 header bytes, as many
\* payload bytes as the last header byte declares, and a 2-byte trailer.
Synced(s) ==
    /\ Len(s) >= 11
    /\ SubSeq(s, 1, 4) = Preamble
    /\ Len(s) = 11 + s[9]

WireHdr(s) == SubSeq(s, 5, 9)
WirePayload(s) == SubSeq(s, 10, 9 + s[9])
WireTrailer(s) == (s[10 + s[9]] * 256) + s[11 + s[9]]

\* The step in which the polling thread reads the one frame on the bus.
PollsFrame == pollPc = "get" /\ Synced(bus) /\ bus' # bus

Ended == {"returned", "timeout", "keyerror"}

\* C1: send_command returns normally only if the value of the commanded
\* feature it read last equals the requested state.
C1_ReturnsOnlyConfirmed ==
    [][(callPc' = "returned" /\ callPc # "returned")
         => status[get_feature_name(feature)] = <<state>>]_vars

\* C2: while the controller never reports the requested state, a call that
\* ends ends with the timeout signal, and the polling thread keeps running.
C2_UnconfirmedEndsInTimeout ==
    /\ callPc \in Ended => callPc = "timeout"
    /\ pollPc # "crashed"

\* C3: once more than 5 seconds have elapsed since the first write, the
\* command frame is not written again, and the call does not return normally.
C3_TimeoutIndependentOfRetries ==
    [][/\ (writes > 0 /\ writes' > writes) => ~(now - start > timeout)
       /\ (callPc' = "returned" /\ callPc # "returned") => ~(now - start > timeout)]_vars

\* C4 (as amended): a synchronised frame is accepted if and only if its
\* trailer equals the unreduced sum of 0xA5, the 5 header bytes and the
\* payload bytes; an accepted frame is returned whole.
C4_AcceptsIffSenderSum ==
    [][PollsFrame =>
         /\ (packet' # <<>>) <=>
              (WireTrailer(bus) = 165 + Sum(WireHdr(bus)) + Sum(WirePayload(bus)))
         /\ packet' # <<>> => packet' = <<165>> \o WireHdr(bus) \o WirePayload(bus)]_vars

\* C4 witness: a frame with a 255-byte payload has been accepted.
C4_Accepted == packet # <<>> /\ Len(packet) = 261 /\ bus = <<>>

\* C4 (as claimed): a synchronised frame is accepted if and only if its
\* trailer equals the sum, modulo 65536, of the bytes from the destination
\* byte through the last payload byte.
C4_AcceptsIffSumFromDestination ==
    [][PollsFrame =>
         ((packet' # <<>>) <=>
            (WireTrailer(bus) = (Sum(SubSeq(bus, 6, 9)) + Sum(WirePayload(bus))) % 65536))]_vars

\* C5: while get_status waits, the ready flag is set only by a status frame
\* (payload length > 8) that was read after the flag was cleared.
C5_ReadyOnlyByFreshStatusFrame ==
    [][(callPc \in {"wait1", "wait2"} /\ ~ready /\ ready')
         => (~stale /\ At(packet, 5) > 8)]_vars

\* Some keys of the snapshot already hold the values of the frame being
\* decoded while a later key still holds a different value of an earlier frame.
Torn ==
    /\ pollPc = "decode"
    /\ wr > 1
    /\ \E j \in wr..Len(DecodeOrder) :
          /\ status[DecodeOrder[j]] # <<>>
          /\ status[DecodeOrder[j]] # <<FieldValue(DecodeOrder[j], packet, now)>>

\* C6: a caller that has seen ready == True and reads the snapshot never
\* reads one that mixes the frame being decoded with earlier values.
C6_NoTornRead == (callPc \in {"log", "cond", "tail"} /\ ready) => ~Torn

\* C7: a frame with a flipped checksum byte is dropped without changing
\* the snapshot or the ready flag and the loop goes on; a valid broadcast
\* status frame read after a drop is accepted whole and decoded into the
\* snapshot.
C7_CorruptDroppedNextDecoded ==
    [][/\ (PollsFrame /\ WireTrailer(bus) # 165 + Sum(WireHdr(bus)) + Sum(WirePayload(bus)))
            => (status' = status /\ ready' = ready /\ pollPc' = "get" /\ packet' = <<>>)
       /\ (/\ PollsFrame
           /\ errlog > 0
           /\ WireTrailer(bus) = 165 + Sum(WireHdr(bus)) + Sum(WirePayload(bus))
           /\ bus[6] = BROADCAST
           /\ bus[9] > 8)
            => (packet' = <<165>> \o WireHdr(bus) \o WirePayload(bus) /\ pollPc' = "decode")
       /\ (errlog > 0 /\ pollPc = "decode" /\ pollPc' = "water")
            => \A j \in 2..Len(DecodeOrder) :
                  status'[DecodeOrder[j]] = <<FieldValue(DecodeOrder[j], packet, now)>>]_vars

\* C7 witness: after a checksum error was logged, a later frame has been
\* decoded into the snapshot.
C7_DecodedAfterDrop == errlog > 0 /\ pollPc = "water" /\ status["spa"] # <<>>

\* C8: the polling thread never stops, whatever frames arrive.
C8_PollingNeverStops == pollPc # "crashed"

\* C9: water_temp (air_temp) is written exactly when the packet contains
\* index 20 (24), as the byte at that index; a shorter packet leaves the
\* key as it was, and the decoding goes on either way.
C9_TemperaturesWhenPresent ==
    [][/\ (pollPc = "water" /\ pollPc' # "water")
            => /\ pollPc' = "air"
               /\ status' = IF Len(packet) > WaterTemp
                            THEN [status EXCEPT !["water_temp"] = <<At(packet, WaterTemp)>>]
                            ELSE status
       /\ (pollPc = "air" /\ pollPc' # "air")
            => /\ pollPc' = "ready"
               /\ status' = IF Len(packet) > AirTemp
                            THEN [status EXCEPT !["air_temp"] = <<At(packet, AirTemp)>>]
                            ELSE status]_vars

\* Bit i of byte n, bit 0 being the most significant.
BitOf(n, i) == (n \div (2 ^ (7 - i))) % 2

OnIff(b) == IF b = 1 THEN <<"on">> ELSE <<"off">>

Equip1Bits ==
    [spillway |-> 0, water_feature |-> 1, pool |-> 2, pool_light |-> 3,
     spa_light |-> 4, air_blower |-> 5, cleaner |-> 6, spa |-> 7]

\* C10: once the equipment keys of a status frame are written, each equip1
\* feature is on exactly when its bit of equip1 is 1 and aux exactly when
\* bit 7 of equip2 is 1; equip1 = 0b10100001 gives spillway, pool and spa on
\* and the other equip1 features off.
C10_BitMapping ==
    pollPc \in {"water", "air", "ready", "set"} =>
        /\ \A k \in DOMAIN Equip1Bits :
              status[k] = OnIff(BitOf(At(packet, Equip1), Equip1Bits[k]))
        /\ status["aux"] = OnIff(BitOf(At(packet, Equip2), 7))
        /\ At(packet, Equip1) = 161 =>
              \A k \in DOMAIN Equip1Bits :
                 status[k] = IF k \in {"spillway", "pool", "spa"} THEN <<"on">> ELSE <<"off">>

\* C10 witness: the frame with equip1 = 0b10100001 has been decoded.
C10_Decoded161 ==
    /\ pollPc = "water"
    /\ At(packet, Equip1) = 161
    /\ status["spa"] = <<"on">>
    /\ status["cleaner"] = <<"off">>

\* The packet part of the written bytes: what follows the two header bytes,
\* without the two checksum bytes.
WrittenPacket == SubSeq(out, 3, Len(out) - 2)

\* C11: the bytes send_command writes, with no other byte before them, are
\* synchronised on by get_packet, read as one frame and pass its checksum test.
C11_WrittenFrameReadsBack ==
    (pollPc = "get" /\ out # <<>> /\ bus = out) =>
        /\ ~get_packet(bus).blocked
        /\ get_packet(bus).packet = WrittenPacket

\* C12 (as amended): read at the positions read_status uses, the written
\* frame has destination = main controller, source = remote controller,
\* command 134, length 2 and payload [feature, 1 if on else 0]; when
\* read_status reads it from the line, that is the packet it gets.
C12_CommandFrameFields ==
    out # <<>> =>
        /\ DstController(WrittenPacket) = [name |-> "Main"]
        /\ At(WrittenPacket, 2) = 16
        /\ SrcController(WrittenPacket) = [name |-> "Remote"]
        /\ At(WrittenPacket, 3) = 32
        /\ At(WrittenPacket, 4) = 134
        /\ At(WrittenPacket, 5) = 2
        /\ SubSeq(WrittenPacket, 7, Len(WrittenPacket))
              = <<feature, IF state = "on" THEN 1 ELSE 0>>
        /\ packet # <<>> => packet = WrittenPacket

\* C12 witness: the frame of send_command(AUX, "on") has been read from the line.
C12_CommandRead ==
    /\ packet # <<>>
    /\ feature = 9
    /\ state = "on"
    /\ DstController(packet) = [name |-> "Main"]

\* C12 (as claimed): the written frame has source = main controller and
\* destination = remote controller at the positions read_status uses.
C12_SourceMainDestinationRemote ==
    out # <<>> =>
        /\ SrcController(WrittenPacket) = [name |-> "Main"]
        /\ DstController(WrittenPacket) = [name |-> "Remote"]
        /\ At(WrittenPacket, 4) = 134
        /\ At(WrittenPacket, 5) = 2
        /\ SubSeq(WrittenPacket, 7, Len(WrittenPacket))
              = <<feature, IF state = "on" THEN 1 ELSE 0>>

\* The fields of the snapshot other than the two pump fields and last_update.
DecodedFields == Fields \ {"pump_watts", "pump_rpm", "last_update"}

\* read_status is processing pkt: it is the packet get_packet hands over in
\* this step, or the one the steps after the loop work on.
Processing(pkt) ==
    \/ pollPc = "get" /\ packet' = pkt
    \/ pollPc \in {"decode", "water", "air", "ready", "set"} /\ packet = pkt

\* C13: while read_status processes a pump telemetry frame (source pump,
\* command 7, packet length 21), whatever its destination, every equipment
\* feature, time, temperature, source and destination field keeps its value.
C13_PumpFrameChangesOnlyPump ==
    [][\A pkt \in {packet, packet'} :
          (pkt # <<>> /\ IsPumpTelemetry(pkt) /\ Processing(pkt)) =>
              \A k \in DecodedFields : status'[k] = status[k]]_vars

\* C14: send_command ends only by returning a snapshot or by raising the
\* timeout error; no other error leaves it.
C14_OnlyTimeoutEscapes == callPc # "keyerror"

\* The frame on the bus carries the sum of its packet bytes as trailer.
WireValid(s) == WireTrailer(s) = 165 + Sum(WireHdr(s)) + Sum(WirePayload(s))

\* C15: a checksum-valid frame with length byte <= 8 is handed over whole,
\* logs no error, and neither the step that reads it nor any later step of
\* read_status working on it changes a field of the snapshot; the steps that
\* decode a status frame are never entered for it.
C15_ShortFrameWritesNothing ==
    [][/\ (PollsFrame /\ WireValid(bus) /\ bus[9] <= 8)
            => /\ status' = status
               /\ errlog' = errlog
               /\ packet' = <<165>> \o WireHdr(bus) \o WirePayload(bus)
               /\ pollPc' \in {"get", "ready"}
       /\ (pollPc # "get" /\ packet # <<>> /\ At(packet, 5) <= 8)
            => /\ status' = status
               /\ errlog' = errlog
               /\ pollPc' \in {"ready", "set", "get"}]_vars

\* C15 witness: a broadcast frame with length byte <= 8 has been processed
\* while the snapshot holds the values of an earlier status frame.
C15_ShortFrameProcessed ==
    /\ pollPc = "ready"
    /\ At(packet, 5) <= 8
    /\ status["spa"] # <<>>
    /\ status["time"] # <<>>

\* The frame on the bus is a pump telemetry frame: source pump, command 7,
\* 15 payload bytes (a packet of 21 bytes).
WireTelemetry(s) == s[7] = PUMP1 /\ s[8] = 7 /\ s[9] = 15

\* C16: pump_watts and pump_rpm change only in the step that reads a
\* checksum-valid frame with source pump, command 7 and packet length 21,
\* and that step stores the two big-endian values of packet[9..12].
C16_PumpFieldsOnlyByTelemetry ==
    [][/\ (\/ status'["pump_watts"] # status["pump_watts"]
           \/ status'["pump_rpm"] # status["pump_rpm"])
            => (PollsFrame /\ WireValid(bus) /\ WireTelemetry(bus))
       /\ (PollsFrame /\ WireValid(bus) /\ WireTelemetry(bus))
            => /\ status'["pump_watts"] = <<(bus[13] * 256) + bus[14]>>
               /\ status'["pump_rpm"] = <<(bus[15] * 256) + bus[16]>>]_vars

\* C16 witness: the telemetry frame with 300 W and 2000 rpm has been stored.
C16_TelemetryStored ==
    /\ status["pump_watts"] = <<300>>
    /\ status["pump_rpm"] = <<2000>>
    /\ packet # <<>>
    /\ Len(packet) = 21

\* C20: in the polling loop a checksum-valid frame whose destination is not
\* the broadcast address leaves the ready flag and every field but the two
\* pump fields as they are, changes the pump fields only if it is a pump
\* telemetry frame, and keeps read_status in its loop; the steps after the
\* loop only ever work on a packet addressed to broadcast.
C20_NonBroadcastFrameIgnored ==
    [][/\ (PollsFrame /\ WireValid(bus) /\ bus[6] # BROADCAST)
            => /\ ready' = ready
               /\ pollPc' = "get"
               /\ \A k \in Fields \ {"pump_watts", "pump_rpm"} : status'[k] = status[k]
               /\ status' # status => WireTelemetry(bus)
       /\ pollPc \in {"decode", "water", "air", "ready", "set"}
            => At(packet, 2) = BROADCAST]_vars

\* C20 witness: a status frame addressed to the remote controller, reporting
\* spa on, has been read while the snapshot says spa is off, and read_status
\* is back at get_packet.
C20_FrameToRemoteRead ==
    /\ pollPc = "get"
    /\ Len(packet) = 35
    /\ At(packet, 2) = REMOTE
    /\ status["spa"] = <<"off">>

\* The writes of one send_command call and the get_status rounds between
\* them: the call starts with one write, writes at most 1 + 5 times, writes
\* again only after reading a value of the feature that differs from the
\* requested state, and every write is followed by one get_status round
\* (ready cleared, then waited for) before the next read of the snapshot.
WritesAndRounds ==
    /\ writes' <= 1 + 5
    /\ (callPc = "idle" /\ callPc' # callPc)
         => (writes' = 1 /\ callPc' = "clear1")
    /\ (callPc # "idle" /\ writes' # writes)
         => /\ writes' = writes + 1
            /\ callPc \in {"cond", "tail"}
            /\ status[get_feature_name(feature)] # <<>>
            /\ status[get_feature_name(feature)] # <<state>>
            /\ callPc' = "clear2"
    /\ (callPc' \in {"clear1", "clear2"} /\ callPc' # callPc) => writes' # writes
    /\ (callPc \in {"clear1", "clear2"} /\ callPc' # callPc)
         => (~ready' /\ callPc' \in {"wait1", "wait2"} /\ writes' = writes)
    /\ (callPc \in {"wait1", "wait2"} /\ callPc' # callPc)
         => (ready /\ callPc' \in {"log", "tail"} /\ writes' = writes)
    /\ (callPc \in {"log", "timeout", "returned", "keyerror"}) => writes' = writes

\* The first read of the loop condition after the first write finds the
\* feature in the requested state.
FirstSnapshotConfirms ==
    /\ callPc = "cond"
    /\ callPc' # callPc
    /\ status[get_feature_name(feature)] = <<state>>

\* C17 (as amended): WritesAndRounds, and when the first snapshot shows the
\* requested state the call ends there without a re-write: it returns,
\* unless more than 5 seconds have elapsed, in which case it raises the
\* timeout error.
C17_WritesRoundsAndFirstConfirm ==
    [][/\ WritesAndRounds
       /\ FirstSnapshotConfirms
            => /\ writes = 1 /\ writes' = 1
               /\ callPc' = IF TimedOut(now, start) THEN "timeout" ELSE "returned"]_vars

\* C17 witness: a call has returned after its single write.
C17_ReturnedAfterOneWrite ==
    /\ callPc = "returned"
    /\ writes = 1
    /\ retry = 5

\* C17 (as claimed): WritesAndRounds, and when the first snapshot shows the
\* requested state the call returns without a re-write.
C17_FirstConfirmReturns ==
    [][/\ WritesAndRounds
       /\ FirstSnapshotConfirms
            => /\ writes = 1 /\ writes' = 1
               /\ callPc' = "returned"]_vars

\* C19: a step of send_command or get_status changes no field of the
\* snapshot and nothing else of the polling thread; of the shared state it
\* changes only the ready flag, which get_status clears; the flag is set
\* only by the step of lines 217-218 of read_status, and the snapshot is
\* changed only by steps of read_status.
C19_PollingLoopSoleWriter ==
    [][/\ callPc' # callPc
            => /\ status' = status
               /\ UNCHANGED pollVars
               /\ ready' # ready => (callPc \in {"clear1", "clear2"} /\ ~ready')
       /\ callPc \in {"clear1", "clear2"} /\ callPc' # callPc => ~ready'
       /\ (~ready /\ ready') => (pollPc = "set" /\ callPc' = callPc)
       /\ status' # status
            => (pollPc \in {"get", "decode", "water", "air"} /\ callPc' = callPc)]_vars

\* C19 witness: in its second get_status round the caller has cleared the
\* flag while the snapshot holds a decoded status frame.
C19_ClearedWithSnapshot ==
    /\ callPc = "wait2"
    /\ ~ready
    /\ status["spa"] # <<>>
    /\ status["aux"] # <<>>

\* The preamble stands in s from position i on.
PreambleAt(s, i) == i + 3 <= Len(s) /\ SubSeq(s, i, i + 3) = Preamble

\* The first position of s at which the preamble stands, 0 if there is none.
FirstPreamble(s) ==
    IF \E i \in 1..Len(s) : PreambleAt(s, i)
    THEN CHOOSE i \in 1..Len(s) :
            PreambleAt(s, i) /\ \A j \in 1..(i - 1) : ~PreambleAt(s, j)
    ELSE 0

\* s holds a whole frame after its first preamble: 5 header bytes, the
\* payload bytes the last header byte declares, and 2 trailer bytes.
HoldsFrame(s) ==
    LET i == FirstPreamble(s) IN
    /\ i > 0
    /\ Len(s) >= i + 8
    /\ Len(s) >= i + 8 + s[i + 8] + 2

\* 0xA5, the header bytes and the payload bytes of that frame.
FramePacket(s) ==
    LET i == FirstPreamble(s) IN SubSeq(s, i + 3, i + 8 + s[i + 8])

\* C18: on bytes without the preamble followed by the first bytes of a
\* checksum-valid frame, get_packet returns nothing while the frame is
\* incomplete; once it is complete get_packet returns exactly 0xA5, the 5
\* header bytes and the declared number of payload bytes, and has read all
\* the bytes; no packet of another length is ever handed over.
C18_SkipsJunkReturnsWholeFrame ==
    /\ (pollPc = "get" /\ packet = <<>> /\ bus # <<>>)
         => /\ get_packet(bus).blocked <=> ~HoldsFrame(bus)
            /\ ~get_packet(bus).blocked
                 => /\ get_packet(bus).packet = FramePacket(bus)
                    /\ get_packet(bus).rest = <<>>
    /\ packet # <<>>
         => /\ packet \in {SubSeq(f, 4, Len(f) - 2) : f \in SyncFrames}
            /\ Len(packet) = 6 + At(packet, 5)
            /\ bus = <<>>
            /\ errlog = 0

\* C18 witness: the frame whose payload holds the preamble bytes has been
\* returned whole and all bytes have been read.
C18_FrameReturned ==
    /\ packet = <<165, 1, MAIN, REMOTE, 2, 5, 255, 0, 255, 165, 255>>
    /\ bus = <<>>
    /\ pollPc = "get"

====
